---- MODULE Spec2Model ----
(***************************************************************************)
(* The design-space exploration agent: the LangGraph pipeline              *)
(*   seed_generator -> evaluator -> [should_continue_refining]             *)
(*                  -> (refinement -> evaluator -> [gate])* -> selector    *)
(*                  -> formatter -> END                                    *)
(* of src/agent/src/agent/graph.py over the node functions of              *)
(* src/agent/src/agent/nodes.py and the state of state.py.                 *)
(*                                                                         *)
(* The text-generation backend is the environment: each call returns a     *)
(* text chosen from a bounded set.  A text is a sequence of tokens; the    *)
(* nodes' json.loads / re.search parsing is computed on that sequence.     *)
(***************************************************************************)
EXTENDS Integers, Sequences, FiniteSets, TLC

(***************************************************************************)
(* JSON values as Python holds them after json.loads.  A dict keeps its    *)
(* insertion order: it is a sequence of key/value pairs.  A str is held as *)
(* the sequence of its words (the text is the words joined by one space),  *)
(* which is what str.split() and the renderer's word wrap work on.         *)
(***************************************************************************)
JNull == [k |-> "null"]
JNum(n) == [k |-> "num", n |-> n]
JStr(s) == [k |-> "str", s |-> s]
JList(items) == [k |-> "list", items |-> items]
JObj(kv) == [k |-> "obj", kv |-> kv]
KV(key, val) == [key |-> key, val |-> val]

\* A state key the caller did not supply (state.get returns its default).
Absent == [k |-> "absent"]

\* Op applied to the value of v, v evaluated once.
Bind(v, Op(_)) == CHOOSE r \in {Op(x) : x \in {v}} : TRUE

IsDict(v) == v.k = "obj"
IsList(v) == v.k = "list"
IsStr(v) == v.k = "str"
IsNum(v) == v.k = "num"

HasKey(o, key) == \E i \in 1..Len(o.kv) : o.kv[i].key = key

\* dict.get(key, default)
Get(o, key, default) ==
    IF HasKey(o, key)
    THEN o.kv[CHOOSE i \in 1..Len(o.kv) : o.kv[i].key = key].val
    ELSE default

\* state.get(key, default) on a state field that may not have been supplied
StateGet(field, default) == IF field = Absent THEN default ELSE field

\* Python truthiness: `not v` holds of None, 0, "", [] and {}.
Falsy(v) ==
    \/ v.k = "null"
    \/ v.k = "absent"
    \/ v.k = "num" /\ v.n = 0
    \/ v.k = "str" /\ v.s = <<>>
    \/ v.k = "list" /\ v.items = <<>>
    \/ v.k = "obj" /\ v.kv = <<>>

\* The elements `for x in v` yields: a list's items, a dict's keys, a
\* string's characters (a non-empty string is modelled as yielding itself
\* once: what matters is that the element is a str).
IterItems(v) ==
    CASE v.k = "list" -> v.items
      [] v.k = "obj" -> [i \in 1..Len(v.kv) |-> JStr(v.kv[i].key)]
      [] v.k = "str" -> IF v.s = <<>> THEN <<>> ELSE <<v>>
      [] OTHER -> <<>>

Iterable(v) == v.k \in {"list", "obj", "str"}

\* The exception raised by `for x in v: x.get(...)`, "none" when it runs through.
IterGetError(v) ==
    IF ~Iterable(v) THEN "TypeError"
    ELSE IF \E i \in 1..Len(IterItems(v)) : ~IsDict(IterItems(v)[i]) THEN "AttributeError"
    ELSE "none"

\* len(v): TypeError on a number or None.
LenError(v) == IF Iterable(v) THEN "none" ELSE "TypeError"

\* The characters of a str held as words: the words and the spaces between.
RECURSIVE CharCount(_)
CharCount(ws) ==
    IF ws = <<>> THEN 0
    ELSE Len(Head(ws)) + (IF Len(ws) > 1 THEN 1 ELSE 0) + CharCount(Tail(ws))

PyLen(v) ==
    CASE v.k = "list" -> Len(v.items)
      [] v.k = "obj" -> Len(v.kv)
      [] v.k = "str" -> CharCount(v.s)
      [] OTHER -> 0

(***************************************************************************)
(* Response texts.  A text is a sequence of tokens:                        *)
(*   LB, RB     the characters [ and ]                                     *)
(*   W          prose: characters that are no JSON and hold no bracket     *)
(*   Lit(v)     the JSON spelling of a scalar or of an object v that       *)
(*              holds no list                                              *)
(*   Key(name)  the opening  {"name":  of a one-field object               *)
(*   RC         the closing  }                                             *)
(* Elements of a list follow each other (their commas are not tokens).     *)
(***************************************************************************)
LB == [t |-> "["]
RB == [t |-> "]"]
W == [t |-> "w"]
RC == [t |-> "}"]
Lit(v) == [t |-> "lit", v |-> v]
Key(name) == [t |-> "key", name |-> name]

ParseFail == [ok |-> FALSE, v |-> JNull, next |-> 0]

\* One JSON value starting at token i: [ok, v, next] with next the index
\* after the value.  ParseItems reads list elements up to the closing RB.
RECURSIVE ParseValue(_, _), ParseItems(_, _, _)
ParseValue(text, i) ==
    IF i > Len(text) THEN ParseFail
    ELSE CASE text[i].t = "lit" -> [ok |-> TRUE, v |-> text[i].v, next |-> i + 1]
           [] text[i].t = "[" -> ParseItems(text, i + 1, <<>>)
           [] text[i].t = "key" ->
                LET r == ParseValue(text, i + 1) IN
                IF r.ok /\ r.next <= Len(text) /\ text[r.next].t = "}"
                THEN [ok |-> TRUE, v |-> JObj(<<KV(text[i].name, r.v)>>), next |-> r.next + 1]
                ELSE ParseFail
           [] OTHER -> ParseFail
ParseItems(text, i, acc) ==
    IF i > Len(text) THEN ParseFail
    ELSE IF text[i].t = "]" THEN [ok |-> TRUE, v |-> JList(acc), next |-> i + 1]
    ELSE LET r == ParseValue(text, i) IN
         IF r.ok THEN ParseItems(text, r.next, Append(acc, r.v)) ELSE ParseFail

\* json.loads(text): [ok, v]; ok = FALSE stands for json.JSONDecodeError.
\* The whole text must be one value.
ParseText(text) ==
    LET r == ParseValue(text, 1) IN
    IF r.ok /\ r.next = Len(text) + 1 THEN [ok |-> TRUE, v |-> r.v]
    ELSE [ok |-> FALSE, v |-> JNull]

OpensBracket(tok) == tok.t = "["
ClosesBracket(tok) == tok.t = "]"
OpensBrace(tok) == tok.t = "key" \/ (tok.t = "lit" /\ tok.v.k = "obj")
ClosesBrace(tok) == tok.t = "}" \/ (tok.t = "lit" /\ tok.v.k = "obj")

\* re.search(r'\[[\s\S]*\]', text): the greedy match runs from the first [
\* to the last ] after it.
SearchList(text) ==
    LET opens == {i \in 1..Len(text) : OpensBracket(text[i])} IN
    IF opens = {} THEN [found |-> FALSE, match |-> <<>>]
    ELSE LET first == CHOOSE i \in opens : \A j \in opens : i <= j
             closes == {i \in 1..Len(text) : ClosesBracket(text[i]) /\ i > first} IN
         IF closes = {} THEN [found |-> FALSE, match |-> <<>>]
         ELSE LET last == CHOOSE i \in closes : \A j \in closes : i >= j IN
              [found |-> TRUE, match |-> SubSeq(text, first, last)]

\* re.search(r'\{[\s\S]*\}', text): from the first { to the last } after it
\* (an object literal token holds both its braces).
SearchObj(text) ==
    LET opens == {i \in 1..Len(text) : OpensBrace(text[i])} IN
    IF opens = {} THEN [found |-> FALSE, match |-> <<>>]
    ELSE LET first == CHOOSE i \in opens : \A j \in opens : i <= j
             closes == {i \in 1..Len(text) : ClosesBrace(text[i]) /\ i >= first
                                              /\ (i = first => text[i].t = "lit")} IN
         IF closes = {} THEN [found |-> FALSE, match |-> <<>>]
         ELSE LET last == CHOOSE i \in closes : \A j \in closes : i >= j IN
              [found |-> TRUE, match |-> SubSeq(text, first, last)]


(***************************************************************************)
(* The bounded environment: the texts the backend may return to each node. *)
(***************************************************************************)
\* The refiner keeps the 3 best (sorted_evals[:3]).
TopK == 3

\* The prompt asks for exactly 5 candidates, with id 1-5.
PromptCandidates == 5

MaxCandidates == 4
MaxIterations == 1
GateMax == 5

Scores == {5, 9}

Cand(i, mcu) == JObj(<<KV("id", JNum(i)), KV("microcontroller", JStr(<<mcu>>))>>)
Seed(i) == Cand(i, "nRF52840")
Refined(i) == Cand(i, "nRF5340")
CandNoId == JObj(<<KV("microcontroller", JStr(<<"MSP430">>))>>)

Ev(i, s) == JObj(<<KV("candidate_id", JNum(i)), KV("overall_score", JNum(s))>>)
EvNoScore(i) == JObj(<<KV("candidate_id", JNum(i))>>)
EvNullScore(i) == JObj(<<KV("candidate_id", JNum(i)), KV("overall_score", JNull)>>)
EvNoId(s) == JObj(<<KV("overall_score", JNum(s))>>)

\* Spellings of a JSON list: alone, inside prose, inside a named field.
ListText(items) == <<LB>> \o [i \in 1..Len(items) |-> Lit(items[i])] \o <<RB>>
InProse(text) == <<W>> \o text \o <<W>>
InField(name, text) == <<Key(name)>> \o text \o <<RC>>
Spellings(items, name) ==
    {ListText(items), InProse(ListText(items)), InField(name, ListText(items))}

\* Texts that hold no list: prose, nothing, brackets around prose, brackets
\* the wrong way round, a cut-off list, a bare number, null, a bare object,
\* an empty object, an empty string.
OddTexts ==
    {<<W>>, <<>>, <<W, LB, W, RB>>, <<RB, W, LB>>, <<LB, Lit(JNum(1))>>,
     <<Lit(JNum(7))>>, <<Lit(JNull)>>, <<Lit(CandNoId)>>, <<Lit(JObj(<<>>))>>,
     <<Lit(JStr(<<>>))>>}

GenLists ==
    {[i \in 1..n |-> Seed(i)] : n \in {0, MaxCandidates}}
    \cup {<<Seed(1), Seed(1)>>, <<CandNoId, Seed(2)>>, <<Seed(1), JNum(7)>>,
          <<Seed(1), Seed(MaxCandidates + 2)>>}
GenTexts == UNION {Spellings(l, "candidates") : l \in GenLists} \cup OddTexts

\* One evaluation more than the refiner keeps, with every assignment of
\* scores (ties and every order among them), the list
\* of the specification's ranking example, and lists with a missing
\* score, a null score, a missing identifier, an element that is no record,
\* an identifier of no candidate.
EvalLen == TopK + 1
SpecExample == <<Ev(1, 5), Ev(2, 9), Ev(3, 7), Ev(4, 3)>>
EvalLists ==
    {[i \in 1..EvalLen |-> Ev(i, f[i])] : f \in [1..EvalLen -> Scores]}
    \cup {<<>>, SpecExample,
          <<EvNoScore(1), Ev(2, 5)>>, <<EvNullScore(1), Ev(2, 5)>>, <<EvNullScore(1)>>,
          <<Ev(1, 5), EvNoId(9)>>, <<Ev(1, 5), JNum(7)>>,
          <<Ev(MaxCandidates + 2, 9), Ev(1, 5)>>}
EvalTexts == UNION {Spellings(l, "evaluations") : l \in EvalLists} \cup OddTexts

RefLists ==
    {<<>>, <<Refined(1), Refined(2), Refined(3)>>,
     <<Refined(2), Refined(3), Refined(1)>>, <<Refined(1), JNum(7)>>}
RefTexts ==
    UNION {Spellings(l, "candidates") : l \in RefLists}
    \cup OddTexts \cup {<<Lit(JStr(<<"none">>))>>}

Selection(pick, reasoning) ==
    JObj(<<KV("top_pick", pick), KV("selection_reasoning", reasoning)>>)
Because == JStr(<<"best", "balance", "of", "accuracy", "and", "power">>)
SelObjects ==
    {Selection(Seed(1), Because),
     Selection(Refined(2), JObj(<<KV("accuracy", JStr(<<"12-bit", "ADC">>)),
                                  KV("power", JStr(<<"low", "duty", "cycle">>))>>)),
     Selection(Seed(1), JList(<<JStr(<<"accurate">>), JStr(<<"frugal">>)>>)),
     Selection(Seed(1), JNum(9)),
     Selection(JNull, Because),
     Selection(JStr(<<"Candidate", "1">>), Because),
     JObj(<<KV("top_pick", Seed(1))>>),
     JObj(<<KV("selection_reasoning", Because)>>)}
SelTexts ==
    UNION {{<<Lit(o)>>, <<W, Lit(o), W>>} : o \in SelObjects}
    \cup {<<W>>, <<>>, <<Key("top_pick"), W, RC>>, <<W, Lit(Seed(1)), W, Lit(Seed(2))>>,
          <<Lit(JNum(7))>>, <<LB, Lit(Seed(1)), RB>>}

\* The backend's reply to one llm.invoke: a text, or the call fails.
Reply(text) == [ok |-> TRUE, text |-> text]
CallFailed == [ok |-> FALSE, text |-> <<>>]

Replies(texts) == {Reply(t) : t \in texts} \cup {CallFailed}

\* The requirements and constraints of test_agent.py, and the faulty inputs.
ValidRequirements ==
    JObj(<<KV("sampling_interval", JStr(<<"5", "min">>)),
           KV("alert_thresholds", JObj(<<KV("low", JNum(70)), KV("high", JNum(180))>>)),
           KV("battery_life", JStr(<<">=24h">>))>>)
ValidConstraints == JObj(<<KV("adc_bits", JStr(<<"{10,12,14,16}">>))>>)

\* json.loads and the two searches are functions of the text alone: their
\* results over the texts of the environment (and the matches found in
\* them) are computed once.
Texts == GenTexts \cup EvalTexts \cup RefTexts \cup SelTexts
ListMatch == [t \in Texts |-> SearchList(t)]
ObjMatch == [t \in Texts |-> SearchObj(t)]
Loaded ==
    [t \in Texts \cup {ListMatch[u].match : u \in Texts} \cup {ObjMatch[u].match : u \in Texts}
       |-> ParseText(t)]

json_loads(text) == Loaded[text]
re_search_list(text) == ListMatch[text]
re_search_obj(text) == ObjMatch[text]

(***************************************************************************)
(* The parsing blocks of the nodes.  Each returns [raised, path, v]:       *)
(* raised is the exception that leaves the block ("none" when it ends      *)
(* normally), path the branch taken:                                       *)
(*   "parsed"     json.loads took the whole text, or it failed and the     *)
(*                regex match was loaded                                   *)
(*   "fallback"   json.loads failed and the regex found nothing            *)
(*   "raised"     json.loads failed, and json.loads of the regex match     *)
(*                raised inside the except block, where nothing catches it *)
(***************************************************************************)
Unwrap(v, key) == IF IsDict(v) /\ HasKey(v, key) THEN Get(v, key, JNull) ELSE v

\* try: v = json.loads(text); unwrap the named field
\* except JSONDecodeError: the bracketed match, or the fallback
ParseList(text, key, fallback) ==
    LET r == json_loads(text) IN
    IF r.ok THEN [raised |-> "none", path |-> "parsed", v |-> Unwrap(r.v, key)]
    ELSE LET m == re_search_list(text) IN
         IF m.found
         THEN LET r2 == json_loads(m.match) IN
              IF r2.ok THEN [raised |-> "none", path |-> "parsed", v |-> r2.v]
              ELSE [raised |-> "JSONDecodeError", path |-> "raised", v |-> JNull]
         ELSE [raised |-> "none", path |-> "fallback", v |-> fallback]

\* An exception that leaves a node, with the source line that raises it.
NoError == [type |-> "none", line |-> 0]
Raise(type, line) == [type |-> type, line |-> line]

(***************************************************************************)
(* seed_generator_node                                                     *)
(***************************************************************************)
\* The check with "and" for "or".
MissingInputBoth(req, con) == Falsy(req) /\ Falsy(con)

\* line 28: not requirements or not constraints
MissingInput(req, con) == Falsy(req) \/ Falsy(con)

seed_generator_node(req, con, reply) ==
    LET p == ParseList(reply.text, "candidates", JList(<<>>))
        none == [called |-> FALSE, path |-> "none", cands |-> JNull]
    IN
    IF MissingInput(req, con)
    THEN [error |-> Raise("ValueError", 29)] @@ none
    ELSE IF ~reply.ok
    THEN [error |-> Raise("BackendError", 125), called |-> TRUE] @@ none
    ELSE IF p.raised # "none"
    THEN [error |-> Raise(p.raised, 138), called |-> TRUE, path |-> p.path] @@ none
    ELSE IF IterGetError(p.v) # "none"
    THEN [error |-> Raise(IterGetError(p.v), 146), called |-> TRUE, path |-> p.path] @@ none
    ELSE [error |-> NoError, called |-> TRUE, path |-> p.path, cands |-> p.v]

(***************************************************************************)
(* evaluator_node                                                          *)
(***************************************************************************)
\* The evaluator without its short-circuit.
NoCandidatesNever(cands) == FALSE

\* line 165: not candidates
NoCandidates(cands) == Falsy(cands)

evaluator_node(cands, reply) ==
    LET p == ParseList(reply.text, "evaluations", JList(<<>>))
        none == [called |-> FALSE, path |-> "none", evals |-> JNull, skipped |-> FALSE]
    IN
    IF NoCandidates(cands)
    THEN [error |-> NoError, evals |-> JList(<<>>), skipped |-> TRUE] @@ none
    ELSE IF LenError(cands) # "none"
    THEN [error |-> Raise(LenError(cands), 170)] @@ none
    ELSE IF ~reply.ok
    THEN [error |-> Raise("BackendError", 198), called |-> TRUE] @@ none
    ELSE IF p.raised # "none"
    THEN [error |-> Raise(p.raised, 211), called |-> TRUE, path |-> p.path] @@ none
    ELSE IF IterGetError(p.v) # "none"
    THEN [error |-> Raise(IterGetError(p.v), 217), called |-> TRUE, path |-> p.path] @@ none
    ELSE [error |-> NoError, called |-> TRUE, path |-> p.path, evals |-> p.v] @@ none

(***************************************************************************)
(* refinement_node                                                         *)
(***************************************************************************)
\* key=lambda x: x.get("overall_score", 0)
ScoreKey(e) == Get(e, "overall_score", JNum(0))

\* sorted() compares the keys pairwise: with two or more elements, a key that
\* is no number (None) raises TypeError.  The scores of the model are
\* numbers or None.
SortError(items) ==
    IF Len(items) >= 2 /\ \E i \in 1..Len(items) : ~IsNum(ScoreKey(items[i]))
    THEN "TypeError" ELSE "none"

\* One element put into a list already in descending key order, behind every
\* element whose key is not smaller: equal keys keep their arrival order.
RECURSIVE InsertDesc(_, _)
InsertDesc(sorted, e) ==
    IF sorted = <<>> THEN <<e>>
    ELSE IF ScoreKey(Head(sorted)).n >= ScoreKey(e).n
         THEN <<Head(sorted)>> \o InsertDesc(Tail(sorted), e)
         ELSE <<e>> \o sorted

\* sorted() without reverse=True: ascending.
RECURSIVE InsertAsc(_, _)
InsertAsc(sorted, e) ==
    IF sorted = <<>> THEN <<e>>
    ELSE IF ScoreKey(Head(sorted)).n <= ScoreKey(e).n
         THEN <<Head(sorted)>> \o InsertAsc(Tail(sorted), e)
         ELSE <<e>> \o sorted
RECURSIVE SortedAsc(_)
SortedAsc(items) ==
    IF Len(items) <= 1 THEN items
    ELSE Bind(SortedAsc(SubSeq(items, 1, Len(items) - 1)),
              LAMBDA s : InsertAsc(s, items[Len(items)]))

\* sorted(evaluations, key=..., reverse=True): stable, descending.
RECURSIVE SortedDesc(_)
SortedDesc(items) ==
    IF Len(items) <= 1 THEN items
    ELSE Bind(SortedDesc(SubSeq(items, 1, Len(items) - 1)),
              LAMBDA s : InsertDesc(s, items[Len(items)]))

\* sorted_evals[:3]
FirstK(seq) == SubSeq(seq, 1, IF Len(seq) < TopK THEN Len(seq) ELSE TopK)

\* [e["candidate_id"] for e in sorted_evals[:3]]
TopIds(evals) ==
    LET top == FirstK(SortedDesc(IterItems(evals))) IN
    [i \in 1..Len(top) |-> Get(top[i], "candidate_id", JNull)]

InSeq(x, seq) == \E i \in 1..Len(seq) : seq[i] = x

\* [c for c in candidates if c.get("id") in top_ids]
TopCandidates(cands, top_ids) ==
    JList(SelectSeq(IterItems(cands), LAMBDA c : InSeq(Get(c, "id", JNull), top_ids)))

\* The counter left as it was.
NextIterationStuck(iteration) == iteration

\* The counter raised by two.
NextIterationByTwo(iteration) == iteration + 2

\* iteration + 1
NextIteration(iteration) == iteration + 1

refinement_node(cands, evals, iteration, reply) ==
    LET items == IterItems(evals)
        top_ids == TopIds(evals)
        top_candidates == TopCandidates(cands, top_ids)
        p == ParseList(reply.text, "candidates", top_candidates)
        none == [called |-> FALSE, path |-> "none", cands |-> JNull,
                 iteration |-> iteration, printed |-> FALSE, top_ids |-> <<>>]
    IN
    IF IterGetError(evals) # "none"
    THEN [error |-> Raise(IterGetError(evals), 236)] @@ none
    ELSE IF SortError(items) # "none"
    THEN [error |-> Raise(SortError(items), 236)] @@ none
    ELSE IF \E i \in 1..Len(FirstK(SortedDesc(items))) :
                ~HasKey(FirstK(SortedDesc(items))[i], "candidate_id")
    THEN [error |-> Raise("KeyError", 237)] @@ none
    ELSE IF IterGetError(cands) # "none"
    THEN [error |-> Raise(IterGetError(cands), 238)] @@ none
    ELSE IF ~reply.ok
    THEN [error |-> Raise("BackendError", 267), called |-> TRUE,
          printed |-> TRUE, top_ids |-> top_ids] @@ none
    ELSE IF p.raised # "none"
    THEN [error |-> Raise(p.raised, 280), called |-> TRUE, path |-> p.path,
          printed |-> TRUE, top_ids |-> top_ids] @@ none
    ELSE IF LenError(p.v) # "none"
    THEN [error |-> Raise(LenError(p.v), 287), called |-> TRUE, path |-> p.path,
          printed |-> TRUE, top_ids |-> top_ids] @@ none
    ELSE [error |-> NoError, called |-> TRUE, path |-> p.path, cands |-> p.v,
          iteration |-> NextIteration(iteration), printed |-> TRUE, top_ids |-> top_ids]

(***************************************************************************)
(* should_continue_refining                                                *)
(***************************************************************************)
DefaultMaxIterations == 2

\* The gate with > for >=.
should_continue_refining_strict(iteration, max_iterations) ==
    IF iteration > StateGet(max_iterations, JNum(DefaultMaxIterations)).n
    THEN "select"
    ELSE "refine"

should_continue_refining(iteration, max_iterations) ==
    IF iteration >= StateGet(max_iterations, JNum(DefaultMaxIterations)).n
    THEN "select"
    ELSE "refine"

(***************************************************************************)
(* str(value) and f"{value}"                                               *)
(***************************************************************************)
AddPrefix(pre, ws) == <<pre \o Head(ws)>> \o Tail(ws)
AddSuffix(ws, suf) == SubSeq(ws, 1, Len(ws) - 1) \o <<ws[Len(ws)] \o suf>>

\* ", ".join(parts), each part a sequence of words
RECURSIVE JoinComma(_)
JoinComma(parts) ==
    IF parts = <<>> THEN <<>>
    ELSE IF Len(parts) = 1 THEN Head(parts)
    ELSE AddSuffix(Head(parts), ",") \o JoinComma(Tail(parts))

\* repr(value), as words
RECURSIVE ReprWords(_)
ReprWords(v) ==
    CASE v.k = "str" -> IF v.s = <<>> THEN <<"''">> ELSE AddSuffix(AddPrefix("'", v.s), "'")
      [] v.k = "num" -> <<ToString(v.n)>>
      [] v.k = "list" ->
            IF v.items = <<>> THEN <<"[]">>
            ELSE AddSuffix(AddPrefix("[", JoinComma([i \in 1..Len(v.items) |-> ReprWords(v.items[i])])), "]")
      [] v.k = "obj" ->
            IF v.kv = <<>> THEN <<"{}">>
            ELSE AddSuffix(AddPrefix("{", JoinComma([i \in 1..Len(v.kv) |->
                     <<"'" \o v.kv[i].key \o "':">> \o ReprWords(v.kv[i].val)])), "}")
      [] OTHER -> <<"None">>

\* str(value), as words: a str is itself, anything else its repr
StrWords(v) == IF IsStr(v) THEN v.s ELSE ReprWords(v)

\* " ".join(words) as one piece of text
RECURSIVE JoinWords(_)
JoinWords(ws) ==
    IF ws = <<>> THEN ""
    ELSE IF Len(ws) = 1 THEN Head(ws)
    ELSE Head(ws) \o " " \o JoinWords(Tail(ws))

\* f"{value}"
Fmt(v) == Bind(StrWords(v), JoinWords)

\* " ".join(parts), each part the words of one str
RECURSIVE Flatten(_)
Flatten(parts) == IF parts = <<>> THEN <<>> ELSE Head(parts) \o Flatten(Tail(parts))

(***************************************************************************)
(* selector_node                                                           *)
(***************************************************************************)
UnableToParse == JStr(<<"Unable", "to", "parse", "selection">>)

\* candidates[0] if candidates else None; the first character of a str is
\* modelled by the str (what matters downstream is that it is a str).
FirstCandidate(cands) ==
    IF Falsy(cands) THEN [raised |-> "none", v |-> JNull]
    ELSE CASE cands.k = "list" -> [raised |-> "none", v |-> cands.items[1]]
           [] cands.k = "str" -> [raised |-> "none", v |-> cands]
           [] cands.k = "obj" -> [raised |-> "KeyError", v |-> JNull]
           [] OTHER -> [raised |-> "TypeError", v |-> JNull]

\* lines 326-334
ParseSelection(text, cands) ==
    LET r == json_loads(text) IN
    IF r.ok THEN [raised |-> "none", path |-> "parsed", v |-> r.v]
    ELSE LET m == re_search_obj(text) IN
         IF m.found
         THEN LET r2 == json_loads(m.match) IN
              IF r2.ok THEN [raised |-> "none", path |-> "parsed", v |-> r2.v]
              ELSE [raised |-> "JSONDecodeError", path |-> "raised", v |-> JNull]
         ELSE LET first == FirstCandidate(cands) IN
              [raised |-> first.raised, path |-> "fallback",
               v |-> JObj(<<KV("top_pick", first.v), KV("selection_reasoning", UnableToParse)>>)]

\* lines 337-343: a dict's values become one str, anything else is kept
NormalizeReasoning(reasoning) ==
    IF IsDict(reasoning)
    THEN JStr(Flatten([i \in 1..Len(reasoning.kv) |-> StrWords(reasoning.kv[i].val)]))
    ELSE reasoning

selector_node(cands, reply) ==
    LET p == ParseSelection(reply.text, cands)
        none == [called |-> TRUE, path |-> "none", top_pick |-> JNull,
                 selection_reasoning |-> JNull]
    IN
    IF ~reply.ok
    THEN [error |-> Raise("BackendError", 321)] @@ none
    ELSE IF p.raised # "none"
    THEN [error |-> Raise(p.raised, IF p.path = "raised" THEN 332 ELSE 334), path |-> p.path] @@ none
    ELSE IF ~IsDict(p.v)
    THEN [error |-> Raise("AttributeError", 337), path |-> p.path] @@ none
    ELSE [error |-> NoError, called |-> TRUE, path |-> p.path,
          top_pick |-> Get(p.v, "top_pick", JNull),
          selection_reasoning |-> NormalizeReasoning(Get(p.v, "selection_reasoning", JStr(<<>>)))]

(***************************************************************************)
(* formatter_node.  The report is the sequence of its lines (formatted is  *)
(* "\n".join(output_lines); a line the code starts with "\n" is two lines).*)
(***************************************************************************)
WrapWidth == 76

Rule80 == "================================================================================"
Dash80 == "--------------------------------------------------------------------------------"
Indent == "    "
NA == JStr(<<"N/A">>)

\* The search taking the first evaluation, whatever its identifier.
EvalForFirst(evals, cid) ==
    IF IterItems(evals) = <<>> THEN JObj(<<>>) ELSE IterItems(evals)[1]

\* next((e for e in evaluations if e.get("candidate_id") == cid), {})
EvalFor(evals, cid) ==
    LET items == IterItems(evals)
        hits == {i \in 1..Len(items) : IsDict(items[i]) /\ Get(items[i], "candidate_id", JNull) = cid}
    IN IF hits = {} THEN JObj(<<>>)
       ELSE items[CHOOSE i \in hits : \A j \in hits : i <= j]

\* The exception of that search: an element that is no dict, met before a match.
EvalForError(evals, cid) ==
    LET items == IterItems(evals) IN
    IF ~Iterable(evals) THEN "TypeError"
    ELSE IF \E i \in 1..Len(items) :
                /\ ~IsDict(items[i])
                /\ \A j \in 1..(i - 1) : Get(items[j], "candidate_id", JNull) # cid
         THEN "AttributeError"
         ELSE "none"

\* lines 385-394: one candidate's section
CandidateSection(candidate, evals) ==
    LET cid == Get(candidate, "id", JNull) IN
    Bind(EvalFor(evals, cid), LAMBDA eval_data :
       <<"",
         "  #" \o Fmt(cid) \o ": " \o Fmt(Get(candidate, "microcontroller", NA)),
         "      * Sensor: " \o Fmt(Get(candidate, "sensor_type", NA)),
         "      * ADC: " \o Fmt(Get(candidate, "adc_bits", NA)) \o "-bit",
         "      * BLE: " \o Fmt(Get(candidate, "ble_module", NA)),
         "      * Battery: " \o Fmt(Get(candidate, "battery", NA))>>
       \o (IF ~Falsy(eval_data)
           THEN <<"      * Score: " \o Fmt(Get(eval_data, "overall_score", NA)) \o "/10">>
           ELSE <<>>))

RECURSIVE CandidateSections(_, _)
CandidateSections(items, evals) ==
    IF items = <<>> THEN <<>>
    ELSE CandidateSection(Head(items), evals) \o CandidateSections(Tail(items), evals)

\* lines 426-435: the word wrap of the justification
RECURSIVE WrapWords(_, _)
WrapWords(words, line) ==
    IF words = <<>> THEN (IF line # Indent THEN <<line>> ELSE <<>>)
    ELSE IF Len(line) + Len(Head(words)) + 1 > WrapWidth
         THEN <<line>> \o WrapWords(Tail(words), Indent \o Head(words))
         ELSE Bind(IF line # Indent THEN line \o " " \o Head(words)
                                    ELSE line \o Head(words),
                   LAMBDA longer : WrapWords(Tail(words), longer))

\* lines 397-435: the top pick's section
TopPickSection(top_pick, evals, words) ==
    Bind(EvalFor(evals, Get(top_pick, "id", JNull)), LAMBDA top_pick_eval :
    <<"", Rule80, "                                   TOP PICK ", Rule80, "",
      "  " \o Fmt(Get(top_pick, "microcontroller", NA)),
      "      * Sensor Type: " \o Fmt(Get(top_pick, "sensor_type", NA)),
      "      * ADC Bits: " \o Fmt(Get(top_pick, "adc_bits", NA)),
      "      * BLE Module: " \o Fmt(Get(top_pick, "ble_module", NA)),
      "      * Battery: " \o Fmt(Get(top_pick, "battery", NA))>>
    \o (IF ~Falsy(top_pick_eval)
        THEN <<"", "  Score Breakdown:",
               "      * Accuracy:    " \o Fmt(Get(top_pick_eval, "accuracy_score", NA)) \o "/10",
               "      * Power:       " \o Fmt(Get(top_pick_eval, "power_score", NA)) \o "/10",
               "      * Cost:        " \o Fmt(Get(top_pick_eval, "cost_score", NA)) \o "/10",
               "      * Reliability: " \o Fmt(Get(top_pick_eval, "reliability_score", NA)) \o "/10",
               "      ---------------------",
               "      * Overall:     " \o Fmt(Get(top_pick_eval, "overall_score", NA)) \o "/10">>
        ELSE <<>>)
    \o <<"", "  Why this is the best choice:">>
    \o WrapWords(words, Indent))

\* The header counting the round about to start, as the refiner's message does.
ReportHeaderOffByOne(cands, iteration) ==
    <<"", Rule80, "              GLUCOSE MONITORING SYSTEM - DESIGN EXPLORATION", Rule80,
      "", "  Iterations completed: " \o ToString(iteration + 1),
      "  Final candidates: " \o ToString(PyLen(cands)),
      "", Dash80, "  FINAL CANDIDATES", Dash80>>

\* lines 370-382: the header
ReportHeader(cands, iteration) ==
    <<"", Rule80, "              GLUCOSE MONITORING SYSTEM - DESIGN EXPLORATION", Rule80,
      "", "  Iterations completed: " \o ToString(iteration),
      "  Final candidates: " \o ToString(PyLen(cands)),
      "", Dash80, "  FINAL CANDIDATES", Dash80>>

\* The exception one pass of the loop of lines 384-394 raises: candidate.get
\* on an element that is no dict, or the search of the evaluations.
SectionError(candidate, evals) ==
    IF ~IsDict(candidate) THEN Raise("AttributeError", 385)
    ELSE IF EvalForError(evals, Get(candidate, "id", JNull)) # "none"
    THEN Raise(EvalForError(evals, Get(candidate, "id", JNull)), 386)
    ELSE NoError

formatter_node(cands, evals, top_pick, reasoning, iteration) ==
    LET items == IterItems(cands)
        bad == {i \in 1..Len(items) : SectionError(items[i], evals) # NoError}
        none == [report |-> <<>>]
    IN
    IF LenError(cands) # "none"
    THEN [error |-> Raise(LenError(cands), 376)] @@ none
    ELSE IF bad # {}
    THEN [error |-> SectionError(items[CHOOSE i \in bad : \A j \in bad : i <= j], evals)] @@ none
    ELSE IF ~Falsy(top_pick) /\ ~IsDict(top_pick)
    THEN [error |-> Raise("AttributeError", 398)] @@ none
    ELSE IF ~Falsy(top_pick) /\ EvalForError(evals, Get(top_pick, "id", JNull)) # "none"
    THEN [error |-> Raise(EvalForError(evals, Get(top_pick, "id", JNull)), 399)] @@ none
    ELSE [error |-> NoError,
          report |-> ReportHeader(cands, iteration)
                     \o CandidateSections(items, evals)
                     \o (IF ~Falsy(top_pick)
                         THEN TopPickSection(top_pick, evals, StrWords(reasoning))
                         ELSE <<>>)
                     \o <<"", Rule80>>]

(***************************************************************************)
(* The run: DesignState (state.py), the node the graph is at, and what an  *)
(* observer of the run records.                                            *)
(***************************************************************************)
VARIABLES
    pc,                   \* the node about to run, "END", or "aborted"
    requirements, constraints, messages, candidates, initial_candidates,
    evaluations, iteration, max_iterations, top_pick, selection_reasoning,
    formatted_output,     \* the fields of DesignState
    error,                \* the exception that ended the run, or NoError
    trace,                \* the steps run so far, in order
    backend_calls,        \* number of llm.invoke calls made
    parse_path,           \* the parsing branch the last step took
    stdout_selected       \* the identifiers on the "Selected:" line the last step printed

state_fields == <<requirements, constraints, messages, candidates, initial_candidates,
                  evaluations, iteration, max_iterations, top_pick, selection_reasoning,
                  formatted_output>>
vars == <<pc, state_fields, error, trace, backend_calls, parse_path, stdout_selected>>

\* No "Selected:" line printed.
NoLine == [printed |-> FALSE, ids |-> <<>>]

\* No run takes more steps than this: every step is guarded by it, so that a
\* state space stays finite whatever the gate answers.
MaxSteps == 3 * (DefaultMaxIterations + MaxIterations) + 6

\* The graph with the refinement wired to the selector.
EdgeRefinementToSelector(node) ==
    CASE node = "START" -> "seed_generator"
      [] node = "seed_generator" -> "evaluator"
      [] node = "refinement" -> "selector"
      [] node = "selector" -> "formatter"
      [] node = "formatter" -> "END"

\* graph.add_edge(a, b)
Edge(node) ==
    CASE node = "START" -> "seed_generator"
      [] node = "seed_generator" -> "evaluator"
      [] node = "refinement" -> "evaluator"
      [] node = "selector" -> "formatter"
      [] node = "formatter" -> "END"

\* The conditional edge with "refine" wired back to the gate.
ConditionalEdgeRefineToGate(route) ==
    CASE route = "refine" -> "gate"
      [] route = "select" -> "selector"

\* graph.add_conditional_edges("evaluator", should_continue_refining, {...})
ConditionalEdge(route) ==
    CASE route = "refine" -> "refinement"
      [] route = "select" -> "selector"

\* The initial state of test_agent.py, with the inputs a caller may vary.
InitFields ==
    /\ messages = <<>>
    /\ candidates = JList(<<>>)
    /\ initial_candidates = JList(<<>>)
    /\ evaluations = JList(<<>>)
    /\ top_pick = JNull
    /\ selection_reasoning = JStr(<<>>)
    /\ formatted_output = <<>>
    /\ error = NoError
    /\ backend_calls = 0
    /\ parse_path = "none"
    /\ stdout_selected = NoLine

Init ==
    /\ pc = Edge("START")
    /\ requirements \in {ValidRequirements, JObj(<<>>), Absent}
    /\ constraints \in {ValidConstraints, JObj(<<>>), Absent}
    /\ iteration = 0
    /\ max_iterations \in {Absent} \cup {JNum(m) : m \in 0..MaxIterations}
    /\ trace = <<>>
    /\ InitFields

\* A node raised: graph.invoke raises, the node's update is not applied.
Abort(node, out) ==
    /\ pc' = "aborted"
    /\ error' = out.error
    /\ trace' = Append(trace, node)
    /\ UNCHANGED state_fields

Running(node) == pc = node /\ Len(trace) < MaxSteps

SeedGenerator ==
    /\ Running("seed_generator")
    /\ \E reply \in Replies(GenTexts) :
         \E out \in {seed_generator_node(requirements, constraints, reply)} :
         /\ backend_calls' = backend_calls + (IF out.called THEN 1 ELSE 0)
         /\ parse_path' = out.path
         /\ IF out.error # NoError THEN Abort("seed_generator", out)
            ELSE /\ candidates' = out.cands
                 /\ initial_candidates' = out.cands
                 /\ messages' = Append(messages, "Generated _ initial candidates")
                 /\ pc' = Edge("seed_generator")
                 /\ trace' = Append(trace, "seed_generator")
                 /\ UNCHANGED <<requirements, constraints, evaluations, iteration,
                                max_iterations, top_pick, selection_reasoning,
                                formatted_output, error>>
    /\ stdout_selected' = NoLine

\* The evaluator's successor is the conditional edge: pc "gate" is the point
\* where should_continue_refining is asked.
Evaluator ==
    /\ Running("evaluator")
    /\ \E reply \in Replies(EvalTexts) :
         \E out \in {evaluator_node(candidates, reply)} :
         /\ backend_calls' = backend_calls + (IF out.called THEN 1 ELSE 0)
         /\ parse_path' = out.path
         /\ IF out.error # NoError THEN Abort("evaluator", out)
            ELSE /\ evaluations' = out.evals
                 /\ messages' = Append(messages, IF out.skipped
                                                 THEN "No candidates to evaluate"
                                                 ELSE "Evaluated _ candidates")
                 /\ pc' = "gate"
                 /\ trace' = Append(trace, "evaluator")
                 /\ UNCHANGED <<requirements, constraints, candidates, initial_candidates,
                                iteration, max_iterations, top_pick, selection_reasoning,
                                formatted_output, error>>
    /\ stdout_selected' = NoLine

Gate ==
    /\ Running("gate")
    /\ pc' = ConditionalEdge(should_continue_refining(iteration, max_iterations))
    /\ trace' = Append(trace, "gate")
    /\ parse_path' = "none"
    /\ stdout_selected' = NoLine
    /\ UNCHANGED <<state_fields, error, backend_calls>>

\* The refinement also overwriting initial_candidates.
RefinementOverwritesInitial ==
    /\ Running("refinement")
    /\ \E reply \in Replies(RefTexts) :
         \E out \in {refinement_node(candidates, evaluations, iteration, reply)} :
         /\ backend_calls' = backend_calls + (IF out.called THEN 1 ELSE 0)
         /\ parse_path' = out.path
         /\ stdout_selected' = [printed |-> out.printed, ids |-> out.top_ids]
         /\ IF out.error # NoError THEN Abort("refinement", out)
            ELSE /\ candidates' = out.cands
                 /\ initial_candidates' = out.cands
                 /\ iteration' = out.iteration
                 /\ messages' = Append(messages, "Refined to _ candidates (iteration _)")
                 /\ pc' = Edge("refinement")
                 /\ trace' = Append(trace, "refinement")
                 /\ UNCHANGED <<requirements, constraints, evaluations,
                                max_iterations, top_pick, selection_reasoning,
                                formatted_output, error>>

Refinement ==
    /\ Running("refinement")
    /\ \E reply \in Replies(RefTexts) :
         \E out \in {refinement_node(candidates, evaluations, iteration, reply)} :
         /\ backend_calls' = backend_calls + (IF out.called THEN 1 ELSE 0)
         /\ parse_path' = out.path
         /\ stdout_selected' = [printed |-> out.printed, ids |-> out.top_ids]
         /\ IF out.error # NoError THEN Abort("refinement", out)
            ELSE /\ candidates' = out.cands
                 /\ iteration' = out.iteration
                 /\ messages' = Append(messages, "Refined to _ candidates (iteration _)")
                 /\ pc' = Edge("refinement")
                 /\ trace' = Append(trace, "refinement")
                 /\ UNCHANGED <<requirements, constraints, initial_candidates, evaluations,
                                max_iterations, top_pick, selection_reasoning,
                                formatted_output, error>>

Selector ==
    /\ Running("selector")
    /\ \E reply \in Replies(SelTexts) :
         \E out \in {selector_node(candidates, reply)} :
         /\ backend_calls' = backend_calls + (IF out.called THEN 1 ELSE 0)
         /\ parse_path' = out.path
         /\ IF out.error # NoError THEN Abort("selector", out)
            ELSE /\ top_pick' = out.top_pick
                 /\ selection_reasoning' = out.selection_reasoning
                 /\ messages' = Append(messages, "Final selection complete")
                 /\ pc' = Edge("selector")
                 /\ trace' = Append(trace, "selector")
                 /\ UNCHANGED <<requirements, constraints, candidates, initial_candidates,
                                evaluations, iteration, max_iterations, formatted_output,
                                error>>
    /\ stdout_selected' = NoLine

\* The formatter counting itself as an iteration.
FormatterCountsItself ==
    /\ Running("formatter")
    /\ \E out \in {formatter_node(candidates, evaluations, top_pick, selection_reasoning,
                                  iteration)} :
       IF out.error # NoError THEN Abort("formatter", out)
       ELSE /\ formatted_output' = out.report
            /\ iteration' = iteration + 1
            /\ pc' = Edge("formatter")
            /\ trace' = Append(trace, "formatter")
            /\ UNCHANGED <<requirements, constraints, messages, candidates,
                           initial_candidates, evaluations, max_iterations,
                           top_pick, selection_reasoning, error>>
    /\ parse_path' = "none"
    /\ stdout_selected' = NoLine
    /\ UNCHANGED backend_calls

Formatter ==
    /\ Running("formatter")
    /\ \E out \in {formatter_node(candidates, evaluations, top_pick, selection_reasoning,
                                  iteration)} :
       IF out.error # NoError THEN Abort("formatter", out)
       ELSE /\ formatted_output' = out.report
            /\ pc' = Edge("formatter")
            /\ trace' = Append(trace, "formatter")
            /\ UNCHANGED <<requirements, constraints, messages, candidates,
                           initial_candidates, evaluations, iteration, max_iterations,
                           top_pick, selection_reasoning, error>>
    /\ parse_path' = "none"
    /\ stdout_selected' = NoLine
    /\ UNCHANGED backend_calls

Next == SeedGenerator \/ Evaluator \/ Gate \/ Refinement \/ Selector \/ Formatter

Spec == Init /\ [][Next]_vars

\* The graph runs a node as soon as its predecessor has returned.
FairSpec == Init /\ [][Next]_vars /\ WF_vars(Next)

(***************************************************************************)
(* The gate on its own: a run that has reached the conditional edge, the   *)
(* caller having started it with any iteration and max_iterations in       *)
(* 0..GateMax.                                                             *)
(***************************************************************************)
GateInit ==
    /\ pc = "gate"
    /\ requirements = ValidRequirements
    /\ constraints = ValidConstraints
    /\ iteration \in 0..GateMax
    /\ max_iterations \in {Absent} \cup {JNum(m) : m \in 0..GateMax}
    /\ \E n \in {0, MaxCandidates} :
         /\ candidates = JList([i \in 1..n |-> Seed(i)])
         /\ initial_candidates = candidates
         /\ evaluations = JList([i \in 1..n |-> Ev(i, 5)])
         /\ messages = <<"Generated _ initial candidates",
                         IF n = 0 THEN "No candidates to evaluate"
                                  ELSE "Evaluated _ candidates">>
         /\ backend_calls = IF n = 0 THEN 1 ELSE 2
    /\ trace = <<"seed_generator", "evaluator">>
    /\ top_pick = JNull
    /\ selection_reasoning = JStr(<<>>)
    /\ formatted_output = <<>>
    /\ error = NoError
    /\ parse_path = "parsed"
    /\ stdout_selected = NoLine

GateSpec == GateInit /\ [][Gate]_vars

(***************************************************************************)
(* Claims                                                                  *)
(***************************************************************************)
Count(tr, node) == Cardinality({i \in 1..Len(tr) : tr[i] = node})
Last(tr) == tr[Len(tr)]

\* The configured maximum: max_iterations, 2 when the caller gave none.
MaxOrDefault == IF max_iterations = Absent THEN 2 ELSE max_iterations.n

\* C1: the gate sends the run to the refinement when iteration < max_iterations
\* and to the selector when iteration >= max_iterations, for all values in
\* 0..GateMax, and it changes no state field.
C1_GateIsPure ==
    [][pc = "gate" /\ pc' # "gate" =>
          /\ pc' = IF iteration < MaxOrDefault THEN "refinement" ELSE "selector"
          /\ UNCHANGED state_fields]_vars

C1_Witness ==
    /\ pc = "selector" /\ Last(trace) = "gate"
    /\ max_iterations # Absent /\ iteration > max_iterations.n

\* C2: the steps of every run are a prefix of Generate, Evaluate, gate,
\* (Refine, Evaluate, gate)*, Select, Render: the generator is first and runs
\* once, only the gate has two successors, a refinement is followed by an
\* evaluation, and a run that ends has run the selector once, then the
\* formatter once, last.
FollowsInOrder(before, after) ==
    CASE before = "seed_generator" -> after = "evaluator"
      [] before = "evaluator" -> after = "gate"
      [] before = "gate" -> after \in {"refinement", "selector"}
      [] before = "refinement" -> after = "evaluator"
      [] before = "selector" -> after = "formatter"
      [] OTHER -> FALSE

C2_StepOrder ==
    /\ \A i \in 1..Len(trace) :
         IF i = 1 THEN trace[i] = "seed_generator" ELSE FollowsInOrder(trace[i - 1], trace[i])
    /\ Count(trace, "seed_generator") <= 1
    /\ pc = "END" =>
         /\ Last(trace) = "formatter"
         /\ Count(trace, "formatter") = 1
         /\ Count(trace, "selector") = 1
         /\ Count(trace, "seed_generator") = 1

C2_Witness ==
    /\ pc = "END"
    /\ trace = <<"seed_generator", "evaluator", "gate", "refinement", "evaluator", "gate",
                 "selector", "formatter">>

\* C3: a run started with iteration = 0 that no step aborts eventually runs
\* the formatter and ends.
C3_RunEnds == <>(pc = "aborted" \/ (pc = "END" /\ Last(trace) = "formatter"))

C3_Witness == pc = "END" /\ iteration = 2 /\ Count(trace, "refinement") = 2

\* C4: a run with max_iterations = m (2 when not supplied) performs at most
\* m refinement steps and at most m + 1 evaluator steps.
C4_BoundedCycles ==
    /\ Count(trace, "refinement") <= MaxOrDefault
    /\ Count(trace, "evaluator") <= MaxOrDefault + 1

C4_Witness ==
    /\ max_iterations = Absent
    /\ Count(trace, "refinement") = 2
    /\ Count(trace, "evaluator") = 3
    /\ pc = "END"

\* C5: with max_iterations = 0 no refinement step runs, and a run that ends
\* ran generate, evaluate, select, render and reports 0 iterations.
C5_ZeroIterations ==
    max_iterations = JNum(0) =>
        /\ Count(trace, "refinement") = 0
        /\ pc = "END" =>
             /\ trace = <<"seed_generator", "evaluator", "gate", "selector", "formatter">>
             /\ iteration = 0
             /\ formatted_output[6] = "  Iterations completed: 0"

C5_Witness ==
    /\ max_iterations = JNum(0) /\ pc = "END"
    /\ backend_calls = 3 /\ PyLen(candidates) = MaxCandidates

\* C6: a malformed backend response never aborts the run: the only runs that
\* abort are those with a configuration fault or a failed backend call.
C6_MalformedResponseAbsorbed ==
    pc = "aborted" => error.type \in {"ValueError", "BackendError"}

\* C7: every invocation of the refiner that got a backend response, whatever
\* the response, increases the iteration counter by exactly 1.
C7_RefinerAlwaysIncrements ==
    [][pc = "refinement" /\ pc' # "refinement" /\ parse_path' # "none" =>
          iteration' = iteration + 1]_vars

\* C8: the identifiers the refiner selects are those of the first 3
\* evaluations in the order of aggregate score descending, ties in original
\* order; for the evaluations (1,5),(2,9),(3,7),(4,3) they are 2, 3, 1.
RankScore(e) == IF HasKey(e, "overall_score") THEN Get(e, "overall_score", JNull) ELSE JNum(0)
\* The place of evaluation i in the ranking: one more than the number of
\* evaluations that go before it.
RankOf(evs, i) ==
    1 + Cardinality({j \in 1..Len(evs) : j # i /\
                        \/ RankScore(evs[j]).n > RankScore(evs[i]).n
                        \/ RankScore(evs[j]).n = RankScore(evs[i]).n /\ j < i})

C8_TopKByScore ==
    stdout_selected.printed =>
        LET evs == IterItems(evaluations)
            ids == stdout_selected.ids
        IN /\ Len(ids) = (IF Len(evs) < 3 THEN Len(evs) ELSE 3)
           /\ \A i \in 1..Len(evs) :
                 RankOf(evs, i) <= 3 => ids[RankOf(evs, i)] = Get(evs[i], "candidate_id", JNull)
           /\ evaluations = JList(SpecExample) => ids = <<JNum(2), JNum(3), JNum(1)>>

C8_Witness ==
    /\ stdout_selected.printed
    /\ evaluations = JList(SpecExample)
    /\ stdout_selected.ids = <<JNum(2), JNum(3), JNum(1)>>

\* C9: when the refiner cannot parse the backend response, the candidate
\* list after the step is the previous candidates whose identifier is among
\* the top-K evaluation identifiers, each unchanged.
C9_FallbackKeepsTopK ==
    [][pc = "refinement" /\ pc' # "refinement" /\ parse_path' \in {"fallback", "raised"} =>
          /\ candidates'.k = "list"
          /\ candidates'.items =
                SelectSeq(IterItems(candidates),
                          LAMBDA c : \E i \in 1..Len(IterItems(evaluations)) :
                                        /\ RankOf(IterItems(evaluations), i) <= 3
                                        /\ Get(IterItems(evaluations)[i], "candidate_id", JNull)
                                             = Get(c, "id", JNull))]_vars

\* C10: after a refiner step the candidate list is never empty.
C10_NeverEmptyAfterRefine ==
    pc = "evaluator" /\ Len(trace) > 0 /\ Last(trace) = "refinement" => PyLen(candidates) > 0

\* C11 as stated: an evaluator step with an empty candidate list sets the
\* evaluations to empty and makes no backend call, and every invocation of
\* the generator, the refiner and the selector makes one backend call.
C11_EveryOtherStepCalls ==
    [][/\ pc = "evaluator" /\ pc' # "evaluator" /\ candidates = JList(<<>>) =>
             evaluations' = JList(<<>>) /\ backend_calls' = backend_calls
       /\ pc \in {"seed_generator", "refinement", "selector"} /\ pc' # pc =>
             backend_calls' = backend_calls + 1]_vars

\* C11, amended: an evaluator step with an empty candidate list sets the
\* evaluations to empty, makes no backend call and goes on to the gate; it
\* is the only step that returns without a backend call: a generator,
\* refiner or selector step that returns, and an evaluator step on
\* candidates that returns, has made exactly one.
C11_OnlyEvaluatorSkips ==
    [][/\ pc = "evaluator" /\ pc' # "evaluator" /\ candidates = JList(<<>>) =>
             /\ evaluations' = JList(<<>>)
             /\ backend_calls' = backend_calls
             /\ pc' = "gate"
       /\ pc \in {"seed_generator", "refinement", "selector"} /\ pc' \notin {pc, "aborted"} =>
             backend_calls' = backend_calls + 1
       /\ pc = "evaluator" /\ pc' = "gate" /\ PyLen(candidates) > 0 =>
             backend_calls' = backend_calls + 1]_vars

C11_Witness ==
    /\ pc = "gate" /\ Last(trace) = "evaluator"
    /\ candidates = JList(<<>>) /\ evaluations = JList(<<>>)
    /\ backend_calls = 1 /\ parse_path = "none"
\* The values the records of a list give to a key.
KeyValues(v, key) ==
    {Get(IterItems(v)[i], key, JNull) :
        i \in {j \in 1..Len(IterItems(v)) : IsDict(IterItems(v)[j]) /\ HasKey(IterItems(v)[j], key)}}

\* C12: after every evaluator step that parsed a backend response, the
\* identifiers the evaluations refer to are identifiers of the current
\* candidates; in a run that has not aborted this fails only between a
\* refinement step and the evaluator step that follows it.
C12_EvalIdsAreCandidateIds ==
    /\ pc = "gate" /\ parse_path = "parsed" =>
          KeyValues(evaluations, "candidate_id") \subseteq KeyValues(candidates, "id")
    /\ pc \notin {"aborted", "evaluator"} =>
          KeyValues(evaluations, "candidate_id") \subseteq KeyValues(candidates, "id")

\* C13: when the selector runs with an empty candidate list the top pick is
\* absent and the justification is the placeholder text, and the run goes on
\* to the formatter (the backend having answered).
C13_EmptySelectsNothing ==
    [][pc = "selector" /\ pc' # "selector" /\ PyLen(candidates) = 0
          /\ error'.type # "BackendError" =>
          /\ pc' = "formatter"
          /\ top_pick' = JNull
          /\ selection_reasoning' = UnableToParse]_vars

\* C14: after every selector step the justification held in the state is a
\* str, whatever shape the backend gave it.
C14_JustificationIsText ==
    pc = "formatter" => IsStr(selection_reasoning)

\* C15: the candidate list the generator writes is empty or a list of
\* records, each with an identifier in 1..5, no identifier twice.
C15_GeneratedAreWellFormed ==
    pc = "evaluator" /\ Last(trace) = "seed_generator" =>
        LET items == IterItems(candidates) IN
        \/ candidates = JList(<<>>)
        \/ /\ IsList(candidates)
           /\ \A i \in 1..Len(items) :
                 /\ IsDict(items[i])
                 /\ HasKey(items[i], "id")
                 /\ IsNum(Get(items[i], "id", JNull))
                 /\ Get(items[i], "id", JNull).n \in 1..PromptCandidates
           /\ \A i, j \in 1..Len(items) :
                 i # j => Get(items[i], "id", JNull) # Get(items[j], "id", JNull)
\* C16: a run started with requirements or constraints missing or empty
\* makes no backend call and runs no step but the generator, which aborts
\* it with the ValueError of line 29.
C16_MissingInputIsFatal ==
    requirements \in {Absent, JObj(<<>>)} \/ constraints \in {Absent, JObj(<<>>)} =>
        /\ backend_calls = 0
        /\ trace \in {<<>>, <<"seed_generator">>}
        /\ trace = <<>> => pc = "seed_generator"
        /\ trace # <<>> => pc = "aborted" /\ error = Raise("ValueError", 29)
        /\ candidates = JList(<<>>) /\ evaluations = JList(<<>>) /\ formatted_output = <<>>

C16_Witness ==
    /\ pc = "aborted" /\ error = Raise("ValueError", 29)
    /\ requirements = ValidRequirements /\ constraints = JObj(<<>>)
    /\ trace = <<"seed_generator">> /\ backend_calls = 0

\* C17: when the backend call of the generator step fails, the run goes on
\* with an error value in the state instead of ending with an exception.
C17_BackendFailureIsValue ==
    [][pc = "seed_generator" /\ backend_calls' = backend_calls + 1 /\ parse_path' = "none" =>
          /\ pc' # "aborted"
          /\ IsDict(candidates')
          /\ HasKey(candidates', "error")]_vars

\* C18: the report of a run that ended has one section per candidate, and
\* the section of every candidate with no matching evaluation, or whose
\* evaluation has no aggregate score, has the score line with "N/A".
C18_EverySectionHasScore ==
    pc = "END" =>
        LET items == IterItems(candidates)
            heads == {"  #" \o Fmt(Get(items[i], "id", JNull)) \o ": "
                        \o Fmt(Get(items[i], "microcontroller", NA)) : i \in 1..Len(items)}
            unscored == {i \in 1..Len(items) :
                           ~HasKey(EvalFor(evaluations, Get(items[i], "id", JNull)),
                                   "overall_score")}
        IN /\ Cardinality({k \in 1..Len(formatted_output) : formatted_output[k] \in heads})
                = Len(items)
           /\ Cardinality({k \in 1..Len(formatted_output) :
                              formatted_output[k] = "      * Score: N/A/10"})
                = Cardinality(unscored)

C20_OnlyRefinerCounts ==
    [][/\ pc # "refinement" => iteration' = iteration
       /\ pc' = "END" => iteration' = Count(trace', "refinement")]_vars

C20_Witness ==
    /\ pc = "END" /\ max_iterations = JNum(1)
    /\ iteration = 1 /\ Count(trace, "refinement") = 1
\* C21: a step writes only the fields of its node (messages aside): the
\* generator candidates and initial_candidates, the evaluator evaluations,
\* the refiner candidates and iteration, the selector top_pick and
\* selection_reasoning, the formatter formatted_output, the gate none;
\* requirements, constraints and max_iterations never change.
C21_StepsWriteOwnFields ==
    [][/\ UNCHANGED <<requirements, constraints, max_iterations>>
       /\ pc = "seed_generator" =>
             UNCHANGED <<evaluations, iteration, top_pick, selection_reasoning,
                         formatted_output>>
       /\ pc = "evaluator" =>
             UNCHANGED <<candidates, initial_candidates, iteration, top_pick,
                         selection_reasoning, formatted_output>>
       /\ pc = "gate" => UNCHANGED state_fields
       /\ pc = "refinement" =>
             UNCHANGED <<initial_candidates, evaluations, top_pick, selection_reasoning,
                         formatted_output>>
       /\ pc = "selector" =>
             UNCHANGED <<candidates, initial_candidates, evaluations, iteration,
                         formatted_output>>
       /\ pc = "formatter" =>
             UNCHANGED <<candidates, initial_candidates, evaluations, iteration, top_pick,
                         selection_reasoning>>]_vars

C21_Witness ==
    /\ pc = "END"
    /\ initial_candidates = JList([i \in 1..MaxCandidates |-> Seed(i)])
    /\ candidates = JList(<<Refined(1), Refined(2), Refined(3)>>)
    /\ evaluations # JList(<<>>) /\ top_pick # JNull /\ formatted_output # <<>>
\* C22: when the selector's response holds no object that parses, the top
\* pick is the first of the current candidates (absent when there is none)
\* and the justification is "Unable to parse selection".
C22_SelectorFallsBack ==
    [][pc = "selector" /\ pc' # "selector" /\ parse_path' \in {"fallback", "raised"} =>
          /\ pc' = "formatter"
          /\ top_pick' = IF Falsy(candidates) THEN JNull ELSE IterItems(candidates)[1]
          /\ selection_reasoning' = UnableToParse]_vars
\* An evaluation is of a record when its candidate_id is the record's id.
IsEvalOf(e, c) ==
    IsDict(e) /\ IsDict(c) /\ Get(e, "candidate_id", JNull) = Get(c, "id", JNull)

\* The evaluations of some candidate, in their order.
EvalsOfCandidates ==
    SelectSeq(IterItems(evaluations),
              LAMBDA e : \E i \in 1..Len(IterItems(candidates)) :
                            IsEvalOf(e, IterItems(candidates)[i]))

\* The evaluations of some candidate or of the top pick, in their order.
EvalsOfCandidatesOrPick ==
    SelectSeq(IterItems(evaluations),
              LAMBDA e : \/ \E i \in 1..Len(IterItems(candidates)) :
                               IsEvalOf(e, IterItems(candidates)[i])
                         \/ IsDict(top_pick) /\ IsEvalOf(e, top_pick))

\* The state holds an evaluation of no candidate, and records the formatter
\* can read: candidates a list of records, the top pick a record or absent.
HasEvalOfNoCandidate ==
    /\ IsList(candidates)
    /\ \A i \in 1..Len(IterItems(candidates)) : IsDict(IterItems(candidates)[i])
    /\ Falsy(top_pick) \/ IsDict(top_pick)
    /\ Len(EvalsOfCandidates) < Len(IterItems(evaluations))

\* The number of candidate sections with a score line is the number of
\* candidates that have an evaluation.
ScoreLinesAreOfMatches(report) ==
    LET evs == IterItems(evaluations)
        items == IterItems(candidates)
        lines == {"      * Score: " \o Fmt(Get(evs[j], "overall_score", NA)) \o "/10" :
                     j \in 1..Len(evs)}
    IN Cardinality({k \in 1..Len(report) : report[k] \in lines})
         = Cardinality({i \in 1..Len(items) : \E j \in 1..Len(evs) : IsEvalOf(evs[j], items[i])})

\* C23 as stated: with an evaluation of no candidate in the state the
\* formatter raises nothing, the report is the one it gives without the
\* evaluations of no candidate, and only candidates with an evaluation
\* have a score line.
C23_UnmatchedAddsNothing ==
    [][pc = "formatter" /\ pc' # "formatter" /\ HasEvalOfNoCandidate =>
          /\ pc' = "END"
          /\ formatted_output' =
                formatter_node(candidates, JList(EvalsOfCandidates), top_pick,
                               selection_reasoning, iteration).report
          /\ ScoreLinesAreOfMatches(formatted_output')]_vars

\* C23, amended: with an evaluation of no candidate in the state the
\* formatter raises nothing, the report is the one it gives without the
\* evaluations that are of no candidate and not of the top pick, and only
\* candidates with an evaluation have a score line.
C23_UnmatchedAddsNoSection ==
    [][pc = "formatter" /\ pc' # "formatter" /\ HasEvalOfNoCandidate =>
          /\ pc' = "END"
          /\ formatted_output' =
                formatter_node(candidates, JList(EvalsOfCandidatesOrPick), top_pick,
                               selection_reasoning, iteration).report
          /\ ScoreLinesAreOfMatches(formatted_output')]_vars

C23_Witness ==
    /\ pc = "END"
    /\ evaluations = JList(<<Ev(MaxCandidates + 2, 9), Ev(1, 5)>>)
    /\ candidates = JList([i \in 1..MaxCandidates |-> Seed(i)])
    /\ top_pick = Seed(1)
\* The steps of a trace that write candidates or evaluations.
Writers(tr) ==
    SelectSeq(tr, LAMBDA node : node \in {"seed_generator", "evaluator", "refinement"})

\* C24: when the selector starts, and from then on, the last step that
\* wrote candidates or evaluations was an evaluator step (its message is the
\* last one before the selector's).
C24_NoStaleEvaluations ==
    /\ pc \in {"selector", "formatter", "END"} =>
          /\ Writers(trace) # <<>>
          /\ Last(Writers(trace)) = "evaluator"
    /\ pc = "selector" =>
          Last(messages) \in {"Evaluated _ candidates", "No candidates to evaluate"}

C24_Witness ==
    /\ pc = "selector" /\ Last(trace) = "gate"
    /\ Count(trace, "refinement") = 2
    /\ Count(trace, "evaluator") = 3

\* C25: the iteration counter is at least 0 and at most max_iterations (2
\* when the caller gave none) in every state, and no step lowers it.
C25_IterationInRange ==
    /\ [](0 <= iteration /\ iteration <= MaxOrDefault)
    /\ [][iteration' >= iteration]_vars

C25_Witness ==
    /\ pc = "evaluator" /\ Last(trace) = "refinement"
    /\ max_iterations = Absent /\ iteration = 2
====
